---- MODULE Spec2Model ----
(***************************************************************************)
(* The scripts of the real-estate price prediction repository, as one      *)
(* state machine over the working directory they share.                    *)
(*                                                                         *)
(* The files of the directory are the persistent state: data/data.csv and  *)
(* data/test.csv (inputs, never written by a script), model_pipeline.pkl,  *)
(* submission.csv and the report files (outputs).  One script runs at a    *)
(* time; each of its statements that reads, computes or writes is one      *)
(* step.  A statement that raises ends the run with the exception.         *)
(*                                                                         *)
(* The library calls are modelled by what they compute on a table:         *)
(* DataFrame.drop, select_dtypes, train_test_split, KFold, SimpleImputer,  *)
(* OneHotEncoder, ColumnTransformer, Pipeline.  The random forest is kept  *)
(* symbolic: a fitted forest is the pair of the matrix and the targets it  *)
(* was fit on, and a prediction is the pair of the forest and the input    *)
(* row (the forest is deterministic, random_state = 42).                   *)
(***************************************************************************)
EXTENDS Integers, Sequences, FiniteSets, TLC

(***************************************************************************)
(* Bounds of the model.                                                    *)
(***************************************************************************)
MaxRows == 6
MaxTestRows == 2
MaxWidth == 20

(***************************************************************************)
(* Cells.  Every cell is a record of the same shape, so that cells of      *)
(* numeric and of text columns can be compared.                            *)
(***************************************************************************)
NaN == [kind |-> "nan", num |-> 0, str |-> ""]
Num(n) == [kind |-> "num", num |-> n, str |-> ""]
Str(s) == [kind |-> "str", num |-> 0, str |-> s]
IsNaN(c) == c.kind = "nan"

\* The text values of the tables, in the order Python sorts them.
SortedStrings == <<"no", "yes">>
StrRank(s) == CHOOSE k \in 1..Len(SortedStrings) : SortedStrings[k] = s

Unset == [unset |-> TRUE]
NoFile == [exists |-> FALSE]
File(c) == [exists |-> TRUE, content |-> c]

(***************************************************************************)
(* Sequence helpers.                                                       *)
(***************************************************************************)
Range(s) == {s[k] : k \in DOMAIN s}
Contains(s, x) == \E k \in DOMAIN s : s[k] = x
\* [c for c in s if P(c)], keeping order
RECURSIVE Without(_, _)
Without(s, drop) ==
  IF s = <<>> THEN <<>>
  ELSE IF Head(s) \in drop THEN Without(Tail(s), drop)
       ELSE <<Head(s)>> \o Without(Tail(s), drop)
IsPrefix(s, t) == Len(s) <= Len(t) /\ s = SubSeq(t, 1, Len(s))
\* ascending sort of a set of integers
RECURSIVE SortedSeq(_)
SortedSeq(S) ==
  IF S = {} THEN <<>>
  ELSE LET m == CHOOSE x \in S : \A z \in S : x <= z
       IN <<m>> \o SortedSeq(S \ {m})

(***************************************************************************)
(* The tables the input files can hold.  A table is a DataFrame: its       *)
(* column names in file order, its row labels (RangeIndex 0..n-1 after     *)
(* read_csv) and its rows.                                                 *)
(***************************************************************************)
TARGET == "price"

UniverseRows == <<
  [total_area |-> Num(30), gas |-> Str("yes"), price |-> Num(100)],
  [total_area |-> Num(90), gas |-> Str("no"),  price |-> Num(300)],
  [total_area |-> NaN,     gas |-> Str("yes"), price |-> Num(200)],
  [total_area |-> Num(50), gas |-> NaN,        price |-> Num(150)],
  [total_area |-> Num(70), gas |-> Str("yes"), price |-> Num(250)],
  [total_area |-> Num(40), gas |-> Str("no"),  price |-> Num(120)],
  [total_area |-> Num(60), gas |-> Str("yes"), price |-> Num(180)] >>

Variants == {0, 4}
UniverseRow(i, v) == UniverseRows[((i + v) % Len(UniverseRows)) + 1]

\* the cell of column c in the i-th row (0-based) of a table of variant v
CellOf(c, i, v, base) ==
  IF c = "index" THEN Num(base + i)
  ELSE IF c = "total_area" THEN UniverseRow(i, v).total_area
  ELSE IF c = "gas" THEN UniverseRow(i, v).gas
  ELSE IF c = "kitchen_area" THEN Num(10 + 10 * ((i + v) % 3))
  ELSE UniverseRow(i, v).price

Frame(cols, n, v, base) ==
  [columns |-> cols,
   index   |-> [k \in 1..n |-> k - 1],
   rows    |-> [k \in 1..n |-> [c \in Range(cols) |-> CellOf(c, k - 1, v, base)]]]

DataLayouts == { <<"index", "total_area", "gas", "price">>,
                 <<"index", "kitchen_area", "gas", "total_area", "price">>,
                 <<"total_area", "gas", "price">>,
                 <<"index", "total_area", "gas">> }
TestLayouts == { <<"index", "total_area", "gas">>,
                 <<"total_area", "gas">>,
                 <<"index", "total_area">> }

DataTables == { Frame(cols, n, v, 1) : cols \in DataLayouts, n \in 0..MaxRows, v \in Variants }
TestTables == { Frame(cols, n, 1, 101) : cols \in TestLayouts, n \in 0..MaxTestRows }

(***************************************************************************)
(* pandas operations.                                                      *)
(***************************************************************************)
NRows(df) == Len(df.index)
HasColumns(df, cols) == Range(cols) \subseteq Range(df.columns)

\* df.drop(columns = cols); the caller checks HasColumns first (KeyError)
Drop(df, cols) ==
  LET keep == Without(df.columns, Range(cols))
  IN [columns |-> keep,
      index   |-> df.index,
      rows    |-> [k \in DOMAIN df.rows |-> [c \in Range(keep) |-> df.rows[k][c]]]]

\* df[c]
Column(df, c) ==
  [name |-> c, index |-> df.index, values |-> [k \in DOMAIN df.rows |-> df.rows[k][c]]]

\* _safe_indexing(df, positions): the rows at the given 0-based positions, in
\* that order, each keeping its label
Take(df, positions) ==
  [columns |-> df.columns,
   index   |-> [k \in DOMAIN positions |-> df.index[positions[k] + 1]],
   rows    |-> [k \in DOMAIN positions |-> df.rows[positions[k] + 1]]]
TakeSeries(s, positions) ==
  [name |-> s.name,
   index  |-> [k \in DOMAIN positions |-> s.index[positions[k] + 1]],
   values |-> [k \in DOMAIN positions |-> s.values[positions[k] + 1]]]

\* the dtype read_csv infers for a column: object when it holds text, and
\* for every column of a table without rows
IsObject(df, c) ==
  \/ NRows(df) = 0
  \/ \E k \in DOMAIN df.rows : df.rows[k][c].kind = "str"

(***************************************************************************)
(* Feature type detection (train_model_clean.py step 3, validate_cv.py).   *)
(***************************************************************************)
\* X.select_dtypes(include = ["object"]).columns.tolist()
CatCols(X) == Without(X.columns, {c \in Range(X.columns) : ~IsObject(X, c)})
\* variant of the numeric list that takes every column
NumColsAll(X) == X.columns

\* [c for c in X.columns if c not in cat_cols]
NumCols(X) == Without(X.columns, Range(CatCols(X)))

(***************************************************************************)
(* The shuffle of numpy's RandomState(seed).permutation(n): the Mersenne   *)
(* Twister seeded with the integer, then the Fisher-Yates shuffle of       *)
(* 0..n-1.  The generator is not modelled; its output for the seeds and    *)
(* the sizes of this model is tabulated.                                   *)
(***************************************************************************)
RANDOM_STATE == 42

Permutation(seed, n) ==
  IF seed = 42 THEN
    CASE n = 0 -> <<>>
      [] n = 1 -> <<0>>
      [] n = 2 -> <<1, 0>>
      [] n = 3 -> <<0, 1, 2>>
      [] n = 4 -> <<1, 3, 0, 2>>
      [] n = 5 -> <<1, 4, 2, 0, 3>>
      [] n = 6 -> <<0, 1, 5, 2, 4, 3>>
      [] n = 7 -> <<0, 1, 5, 2, 4, 3, 6>>
  ELSE \* seed 0
    CASE n = 0 -> <<>>
      [] n = 1 -> <<0>>
      [] n = 2 -> <<1, 0>>
      [] n = 3 -> <<2, 1, 0>>
      [] n = 4 -> <<2, 3, 1, 0>>
      [] n = 5 -> <<2, 0, 1, 3, 4>>
      [] n = 6 -> <<5, 2, 1, 3, 0, 4>>
      [] n = 7 -> <<6, 2, 1, 3, 0, 5, 4>>

(***************************************************************************)
(* train_test_split(X, y, test_size = 0.2, random_state = seed).           *)
(* n_test = ceil(test_size * n), n_train = n - n_test; the call raises     *)
(* ValueError when the training set would be empty.  test_size is given    *)
(* in percent.                                                             *)
(***************************************************************************)
TEST_SIZE == 20

CeilDiv(a, b) == (a + b - 1) \div b
NTest(n, test_size) == CeilDiv(test_size * n, 100)
SplitRaises(n, test_size) == n - NTest(n, test_size) <= 0

\* variant of the split whose training part starts one entry early
SplitPositionsOverlap(n, test_size, seed) ==
  LET perm == Permutation(seed, n)
      nt   == NTest(n, test_size)
  IN [train |-> SubSeq(perm, nt, n), test |-> SubSeq(perm, 1, nt)]

\* the positions of the two parts: the first n_test entries of the
\* permutation are the test part, the rest the training part
SplitPositions(n, test_size, seed) ==
  LET perm == Permutation(seed, n)
      nt   == NTest(n, test_size)
  IN [train |-> SubSeq(perm, nt + 1, n), test |-> SubSeq(perm, 1, nt)]

TrainTestSplit(X, y, test_size, seed) ==
  LET pos == SplitPositions(NRows(X), test_size, seed)
  IN [X_train |-> Take(X, pos.train), X_val |-> Take(X, pos.test),
      y_train |-> TakeSeries(y, pos.train), y_val |-> TakeSeries(y, pos.test)]

(***************************************************************************)
(* KFold(n_splits = 5, shuffle = True, random_state = seed).split(X).      *)
(* The shuffled positions are cut into n_splits consecutive folds, the     *)
(* first n mod n_splits one longer; fold k's test part is its positions    *)
(* in ascending order and its training part all the others, ascending.     *)
(* The call raises ValueError when n < n_splits.                           *)
(***************************************************************************)
N_SPLITS == 5

KFoldRaises(n, n_splits) == n_splits > n
FoldSize(n, n_splits, k) == (n \div n_splits) + (IF k <= n % n_splits THEN 1 ELSE 0)
RECURSIVE FoldStart(_, _, _)
FoldStart(n, n_splits, k) ==
  IF k = 1 THEN 0 ELSE FoldStart(n, n_splits, k - 1) + FoldSize(n, n_splits, k - 1)
\* variant of KFold in which every fold starts one position after the
\* one before it
KFoldSplitOverlap(n, n_splits, seed) ==
  LET perm == Permutation(seed, n)
  IN [k \in 1..n_splits |->
        LET test == {perm[j] : j \in k..(k + FoldSize(n, n_splits, k) - 1)}
        IN [train |-> SortedSeq((0..(n - 1)) \ test), test |-> SortedSeq(test)]]

KFoldSplit(n, n_splits, seed) ==
  LET perm == Permutation(seed, n)
  IN [k \in 1..n_splits |->
        LET start == FoldStart(n, n_splits, k)
            test  == {perm[j] : j \in (start + 1)..(start + FoldSize(n, n_splits, k))}
        IN [train |-> SortedSeq((0..(n - 1)) \ test), test |-> SortedSeq(test)]]

(***************************************************************************)
(* The pipeline: ColumnTransformer(num: SimpleImputer(median); cat:        *)
(* SimpleImputer(most_frequent) + OneHotEncoder(handle_unknown="ignore"))  *)
(* followed by RandomForestRegressor(n_estimators = 400, random_state =    *)
(* 42).                                                                    *)
(***************************************************************************)
N_ESTIMATORS == 400

NewPipeline(num_cols, cat_cols) ==
  [fitted |-> FALSE, num_cols |-> num_cols, cat_cols |-> cat_cols,
   n_estimators |-> N_ESTIMATORS, random_state |-> RANDOM_STATE]

\* the values of column c that are not missing, as a bag (position -> value)
Present(X, c) == {k \in DOMAIN X.rows : ~IsNaN(X.rows[k][c])}

\* SimpleImputer(strategy = "median").statistics_ of one column.  The areas
\* of the tables are multiples of ten, so the mean of two of them is whole.
Median(X, c) ==
  LET P == Present(X, c)
      below(k) == Cardinality({j \in P : X.rows[j][c].num < X.rows[k][c].num
                                         \/ (X.rows[j][c].num = X.rows[k][c].num /\ j < k)})
      at(r) == X.rows[CHOOSE k \in P : below(k) = r][c].num
      m == Cardinality(P)
  IN IF m = 0 THEN NaN
     ELSE IF m % 2 = 1 THEN Num(at(m \div 2))
     ELSE Num((at(m \div 2 - 1) + at(m \div 2)) \div 2)

\* SimpleImputer(strategy = "most_frequent").statistics_ of one column: the
\* most frequent value, the smallest one on a tie
MostFrequent(X, c) ==
  LET P == Present(X, c)
      count(s) == Cardinality({k \in P : X.rows[k][c].str = s})
      seen == {X.rows[k][c].str : k \in P}
      best == {s \in seen : \A t \in seen : count(t) <= count(s)}
  IN IF P = {} THEN NaN
     ELSE Str(CHOOSE s \in best : \A t \in best : StrRank(s) <= StrRank(t))

Impute(cell, statistic) == IF IsNaN(cell) THEN statistic ELSE cell

\* OneHotEncoder.categories_ of one column: the sorted distinct values of
\* the imputed column
Categories(X, c, statistic) ==
  LET seen == {Impute(X.rows[k][c], statistic).str : k \in DOMAIN X.rows}
  IN Without(SortedStrings, Range(SortedStrings) \ seen)

\* ColumnTransformer.fit: the statistics of every column, from the rows of X
FitPreprocess(pipe, X) ==
  LET medians == [c \in Range(pipe.num_cols) |-> Median(X, c)]
      modes   == [c \in Range(pipe.cat_cols) |-> MostFrequent(X, c)]
  IN [medians |-> medians, modes |-> modes,
      categories |-> [c \in Range(pipe.cat_cols) |-> Categories(X, c, modes[c])]]

\* one row through the fitted ColumnTransformer: the imputed numeric
\* columns, then the one-hot block of every categorical column (all zero
\* for a category not seen in fit)
RECURSIVE Flatten(_)
Flatten(ss) == IF ss = <<>> THEN <<>> ELSE Head(ss) \o Flatten(Tail(ss))
TransformRow(pre, num_cols, cat_cols, row) ==
  [k \in DOMAIN num_cols |-> Impute(row[num_cols[k]], pre.medians[num_cols[k]])]
  \o Flatten([k \in DOMAIN cat_cols |->
       LET c == cat_cols[k]
           v == Impute(row[c], pre.modes[c])
       IN [j \in DOMAIN pre.categories[c] |->
             IF v.str = pre.categories[c][j] THEN Num(1) ELSE Num(0)]])
Transform(pre, num_cols, cat_cols, X) ==
  [k \in DOMAIN X.rows |-> TransformRow(pre, num_cols, cat_cols, X.rows[k])]

\* pipeline.fit(X, y): the preprocessing is fit on X, the forest on the
\* transformed X and y.  fit_index records the labels of the rows given.
Fit(pipe, X, y) ==
  LET pre == FitPreprocess(pipe, X)
  IN [fitted |-> TRUE, num_cols |-> pipe.num_cols, cat_cols |-> pipe.cat_cols,
      n_estimators |-> pipe.n_estimators, random_state |-> pipe.random_state,
      preprocess |-> pre,
      forest |-> [X |-> Transform(pre, pipe.num_cols, pipe.cat_cols, X), y |-> y.values],
      feature_names_in |-> X.columns,
      fit_index |-> X.index]

\* pipeline.predict(X) raises ValueError when X lacks a column the
\* ColumnTransformer was fit on ("columns are missing") or has no rows
PredictRaises(pipe, X) ==
  \/ ~HasColumns(X, pipe.num_cols \o pipe.cat_cols)
  \/ NRows(X) = 0
\* pipeline.predict(X): one prediction of the forest per row of X
Predict(pipe, X) ==
  [k \in DOMAIN X.rows |->
     [forest |-> pipe.forest,
      x |-> TransformRow(pipe.preprocess, pipe.num_cols, pipe.cat_cols, X.rows[k])]]

\* a metric of sklearn.metrics over the true and the predicted values
Score(metric, y_true, y_pred) == [metric |-> metric, y_true |-> y_true.values, y_pred |-> y_pred]

(***************************************************************************)
(* State.                                                                  *)
(*   dataFile, testFile   data/data.csv and data/test.csv: input files,    *)
(*                        which no script writes                           *)
(*   modelFile            model_pipeline.pkl                               *)
(*   submissionFile       submission.csv                                   *)
(*   written              the report files (tables, figures) the running   *)
(*                        script has written so far; no script reads them  *)
(*   script, pc           the running script and its next statement        *)
(*   loc                  the module-level variables of the running script *)
(*   exc                  the exception that ended the run                 *)
(*   trace                the steps the run has performed, in order        *)
(***************************************************************************)
VARIABLES dataFile, testFile, modelFile, submissionFile, written,
          script, pc, loc, exc, trace

vars == <<dataFile, testFile, modelFile, submissionFile, written,
          script, pc, loc, exc, trace>>
inputs == <<dataFile, testFile>>
outputs == <<modelFile, submissionFile, written>>

NoLocals ==
  [df |-> Unset, test_df |-> Unset, df_no_id |-> Unset, X |-> Unset, y |-> Unset,
   pipeline |-> Unset, parts |-> Unset, y_pred |-> Unset, metrics |-> Unset,
   model |-> Unset, submission_index |-> Unset, X_test |-> Unset,
   predictions |-> Unset, submission |-> Unset, sample |-> Unset, pred |-> Unset,
   scores |-> Unset, feature_names |-> Unset, importances |-> Unset,
   grade |-> Unset, imp_df |-> Unset, exists |-> Unset, target_cols |-> Unset]

Init ==
  /\ dataFile \in {NoFile} \cup {File(t) : t \in DataTables}
  /\ testFile \in {NoFile} \cup {File(t) : t \in TestTables}
  /\ modelFile = NoFile
  /\ submissionFile = NoFile
  /\ written = {}
  /\ script = "none"
  /\ pc = "idle"
  /\ loc = NoLocals
  /\ exc = Unset
  /\ trace = <<>>

At(s, p) == script = s /\ pc = p

\* the statement completes: the run moves on to the next one
Step(name, next, newloc) ==
  /\ pc' = next
  /\ trace' = Append(trace, name)
  /\ loc' = newloc
  /\ UNCHANGED <<script, exc, inputs>>

\* the statement raises: nothing catches it, the interpreter prints the
\* traceback and the run ends.  origin tells a library's exception from
\* one the script raises itself.
Raise(type, origin) ==
  /\ pc' = "raised"
  /\ exc' = [type |-> type, origin |-> origin]
  /\ UNCHANGED <<script, trace, loc, inputs, outputs>>

\* a script is started from the shell
Start(s, first) ==
  /\ At("none", "idle")
  /\ script' = s
  /\ pc' = first
  /\ UNCHANGED <<loc, exc, trace, inputs, outputs>>

\* the process of the script is gone: the shell is back
Finish ==
  /\ pc \in {"done", "raised", "exited"}
  /\ script' = "none"
  /\ pc' = "idle"
  /\ loc' = NoLocals
  /\ exc' = Unset
  /\ trace' = <<>>
  /\ written' = {}
  /\ UNCHANGED <<inputs, modelFile, submissionFile>>

\* pd.read_csv(path) of an input file
ReadCsv(file) == file.content

(***************************************************************************)
(* train_model_clean.py                                                    *)
(***************************************************************************)
StartTrain == Start("train", "read")

\* step 1: df = pd.read_csv("data/data.csv")
TrainRead ==
  /\ At("train", "read")
  /\ \/ /\ dataFile.exists
        /\ Step("read", "separate", [loc EXCEPT !.df = ReadCsv(dataFile)])
        /\ UNCHANGED outputs
     \/ /\ ~dataFile.exists
        /\ Raise("FileNotFoundError", "library")

\* step 2: X = df.drop(columns=[TARGET, "index"]); y = df[TARGET]
TrainSeparate ==
  /\ At("train", "separate")
  /\ \/ /\ HasColumns(loc.df, <<TARGET, "index">>)
        /\ Step("separate", "build",
                [loc EXCEPT !.X = Drop(loc.df, <<TARGET, "index">>),
                            !.y = Column(loc.df, TARGET)])
        /\ UNCHANGED outputs
     \/ /\ ~HasColumns(loc.df, <<TARGET, "index">>)
        /\ Raise("KeyError", "library")

\* variant of steps 3 to 5 that already writes the pipeline, not yet fit, to
\* model_pipeline.pkl
TrainBuildDump ==
  /\ At("train", "build")
  /\ Step("build", "split", [loc EXCEPT !.pipeline = NewPipeline(NumCols(loc.X), CatCols(loc.X))])
  /\ modelFile' = File(NewPipeline(NumCols(loc.X), CatCols(loc.X)))
  /\ UNCHANGED <<submissionFile, written>>

\* steps 3 to 5: the column lists and the unfitted pipeline
TrainBuild ==
  /\ At("train", "build")
  /\ Step("build", "split", [loc EXCEPT !.pipeline = NewPipeline(NumCols(loc.X), CatCols(loc.X))])
  /\ UNCHANGED outputs

\* step 6: train_test_split(X, y, test_size=0.2, random_state=42)
TrainSplit ==
  /\ At("train", "split")
  /\ \/ /\ ~SplitRaises(NRows(loc.X), TEST_SIZE)
        /\ Step("split", "fit",
                [loc EXCEPT !.parts = TrainTestSplit(loc.X, loc.y, TEST_SIZE, RANDOM_STATE)])
        /\ UNCHANGED outputs
     \/ /\ SplitRaises(NRows(loc.X), TEST_SIZE)
        /\ Raise("ValueError", "library")

\* variant of step 7 that fits a second time
TrainFitRetry ==
  /\ At("train", "fit")
  /\ Step("fit", IF Contains(trace, "fit") THEN "predict" ELSE "fit",
          [loc EXCEPT !.pipeline = Fit(loc.pipeline, loc.parts.X_train, loc.parts.y_train)])
  /\ UNCHANGED outputs

\* variant of step 7 that fits on the whole table
TrainFitAll ==
  /\ At("train", "fit")
  /\ Step("fit", "predict", [loc EXCEPT !.pipeline = Fit(loc.pipeline, loc.X, loc.y)])
  /\ UNCHANGED outputs

\* step 7: pipeline.fit(X_train, y_train)
TrainFit ==
  /\ At("train", "fit")
  /\ Step("fit", "predict",
          [loc EXCEPT !.pipeline = Fit(loc.pipeline, loc.parts.X_train, loc.parts.y_train)])
  /\ UNCHANGED outputs

\* step 8: y_pred = pipeline.predict(X_val)
TrainPredict ==
  /\ At("train", "predict")
  /\ Step("predict", "score", [loc EXCEPT !.y_pred = Predict(loc.pipeline, loc.parts.X_val)])
  /\ UNCHANGED outputs

\* step 8: mae, rmse, r2
TrainScore ==
  /\ At("train", "score")
  /\ Step("score", "save",
          [loc EXCEPT !.metrics =
             [mae  |-> Score("mean_absolute_error", loc.parts.y_val, loc.y_pred),
              rmse |-> Score("root_mean_squared_error", loc.parts.y_val, loc.y_pred),
              r2   |-> Score("r2", loc.parts.y_val, loc.y_pred)]])
  /\ UNCHANGED outputs

\* step 9: joblib.dump(pipeline, "model_pipeline.pkl")
TrainSave ==
  /\ At("train", "save")
  /\ Step("save", "done", loc)
  /\ modelFile' = File(loc.pipeline)
  /\ UNCHANGED <<submissionFile, written>>

(***************************************************************************)
(* predict_clean.py                                                        *)
(***************************************************************************)
StartPredict == Start("predict", "load")

\* variant of step 1 that opens submission.csv for writing as soon as the
\* model is loaded, which leaves the file empty
PredictLoadOpensOutput ==
  /\ At("predict", "load")
  /\ modelFile.exists
  /\ Step("load", "read", [loc EXCEPT !.model = modelFile.content])
  /\ submissionFile' = File([columns |-> <<>>, rows |-> <<>>])
  /\ UNCHANGED <<modelFile, written>>

\* step 1: model = joblib.load("model_pipeline.pkl")
PredictLoad ==
  /\ At("predict", "load")
  /\ \/ /\ modelFile.exists
        /\ Step("load", "read", [loc EXCEPT !.model = modelFile.content])
        /\ UNCHANGED outputs
     \/ /\ ~modelFile.exists
        /\ Raise("FileNotFoundError", "library")

\* step 2: test_df = pd.read_csv("data/test.csv")
PredictRead ==
  /\ At("predict", "read")
  /\ \/ /\ testFile.exists
        /\ Step("read", "prepare", [loc EXCEPT !.test_df = ReadCsv(testFile)])
        /\ UNCHANGED outputs
     \/ /\ ~testFile.exists
        /\ Raise("FileNotFoundError", "library")

\* variant of step 3 that always numbers the rows itself
PredictPrepareRange ==
  /\ At("predict", "prepare")
  /\ \/ /\ Contains(loc.test_df.columns, "index")
        /\ Step("take_index", "predict",
                [loc EXCEPT !.submission_index =
                              [name |-> "index", index |-> loc.test_df.index,
                               values |-> [k \in 1..NRows(loc.test_df) |-> Num(k - 1)]],
                            !.X_test = Drop(loc.test_df, <<"index">>)])
     \/ /\ ~Contains(loc.test_df.columns, "index")
        /\ Step("make_index", "predict",
                [loc EXCEPT !.submission_index =
                              [name |-> "index", index |-> loc.test_df.index,
                               values |-> [k \in 1..NRows(loc.test_df) |-> Num(k - 1)]],
                            !.X_test = loc.test_df])
  /\ UNCHANGED outputs

\* step 3: the index column is kept aside and removed from the features,
\* or, without one, the index is range(len(test_df))
PredictPrepare ==
  /\ At("predict", "prepare")
  /\ \/ /\ Contains(loc.test_df.columns, "index")
        /\ Step("take_index", "predict",
                [loc EXCEPT !.submission_index = Column(loc.test_df, "index"),
                            !.X_test = Drop(loc.test_df, <<"index">>)])
     \/ /\ ~Contains(loc.test_df.columns, "index")
        /\ Step("make_index", "predict",
                [loc EXCEPT !.submission_index =
                              [name |-> "index", index |-> loc.test_df.index,
                               values |-> [k \in 1..NRows(loc.test_df) |-> Num(k - 1)]],
                            !.X_test = loc.test_df])
  /\ UNCHANGED outputs

\* variant of step 4 in which a table that lacks fitted columns is
\* predicted from the columns it has
PredictPredictLenient ==
  /\ At("predict", "predict")
  /\ \/ /\ NRows(loc.X_test) > 0
        /\ Step("predict", "build",
                [loc EXCEPT !.predictions =
                   IF HasColumns(loc.X_test, loc.model.num_cols \o loc.model.cat_cols)
                     THEN Predict(loc.model, loc.X_test)
                     ELSE [k \in DOMAIN loc.X_test.rows |->
                             [forest |-> loc.model.forest, x |-> <<>>]]])
        /\ UNCHANGED outputs
     \/ /\ NRows(loc.X_test) = 0
        /\ Raise("ValueError", "library")

\* variant of step 4 that rebuilds the preprocessing from the test table
\* before predicting
PredictPredictRefit ==
  /\ At("predict", "predict")
  /\ \/ /\ ~PredictRaises(loc.model, loc.X_test)
        /\ Step("predict", "build",
                [loc EXCEPT !.predictions =
                   Predict([loc.model EXCEPT !.preprocess = FitPreprocess(loc.model, loc.X_test)],
                           loc.X_test)])
        /\ UNCHANGED outputs
     \/ /\ PredictRaises(loc.model, loc.X_test)
        /\ Raise("ValueError", "library")

\* step 4: predictions = model.predict(X_test)
PredictPredict ==
  /\ At("predict", "predict")
  /\ \/ /\ ~PredictRaises(loc.model, loc.X_test)
        /\ Step("predict", "build", [loc EXCEPT !.predictions = Predict(loc.model, loc.X_test)])
        /\ UNCHANGED outputs
     \/ /\ PredictRaises(loc.model, loc.X_test)
        /\ Raise("ValueError", "library")

\* pd.DataFrame({"index": submission_index, "price": predictions}): the
\* rows are those of the Series, the array is laid against them in order
Submission(submission_index, predictions) ==
  [columns |-> <<"index", "price">>,
   index   |-> submission_index.index,
   rows    |-> [k \in DOMAIN submission_index.values |->
                  [index |-> submission_index.values[k], price |-> predictions[k]]]]

\* step 5
PredictBuild ==
  /\ At("predict", "build")
  /\ Step("build", "save",
          [loc EXCEPT !.submission = Submission(loc.submission_index, loc.predictions)])
  /\ UNCHANGED outputs

\* variant of to_csv that keeps the row labels as a first column
\* (index=False left out)
ToCsvWithLabels(frame) ==
  [columns |-> <<"">> \o frame.columns, rows |-> frame.rows]

\* submission.to_csv(path, index=False): the header and the rows, without
\* the row labels
ToCsv(frame) == [columns |-> frame.columns, rows |-> frame.rows]

\* step 6: submission.to_csv("submission.csv", index=False)
PredictSave ==
  /\ At("predict", "save")
  /\ Step("save", "done", loc)
  /\ submissionFile' = File(ToCsv(loc.submission))
  /\ UNCHANGED <<modelFile, written>>

(***************************************************************************)
(* demo_predict_one.py                                                     *)
(***************************************************************************)
StartDemo == Start("demo", "load")

\* model = joblib.load(MODEL_PATH)
DemoLoad ==
  /\ At("demo", "load")
  /\ \/ /\ modelFile.exists
        /\ Step("load", "read", [loc EXCEPT !.model = modelFile.content])
        /\ UNCHANGED outputs
     \/ /\ ~modelFile.exists
        /\ Raise("FileNotFoundError", "library")

\* df = pd.read_csv(DATA_PATH).  The model file is written by a training
\* run that read this file, and no script removes it.
DemoRead ==
  /\ At("demo", "read")
  /\ dataFile.exists
  /\ Step("read", "sample", [loc EXCEPT !.df = ReadCsv(dataFile)])
  /\ UNCHANGED outputs

\* sample = df.drop(columns=["price"]).iloc[[0]].copy(): the training run
\* that wrote the model read a table with a price column and two rows or
\* more, so neither drop nor iloc raises
DemoSample ==
  /\ At("demo", "sample")
  /\ HasColumns(loc.df, <<"price">>)
  /\ NRows(loc.df) >= 1
  /\ Step("sample", "drop_index", [loc EXCEPT !.sample = Take(Drop(loc.df, <<"price">>), <<0>>)])
  /\ UNCHANGED outputs

\* variant of demo_predict_one.py that leaves the index column in the sample
DemoKeepIndex ==
  /\ At("demo", "drop_index")
  /\ Step("keep", "predict", loc)
  /\ UNCHANGED outputs

\* if "index" in sample.columns: sample = sample.drop(columns=["index"])
DemoDropIndex ==
  /\ At("demo", "drop_index")
  /\ IF Contains(loc.sample.columns, "index")
       THEN Step("drop_index", "predict", [loc EXCEPT !.sample = Drop(loc.sample, <<"index">>)])
       ELSE Step("keep", "predict", loc)
  /\ UNCHANGED outputs

\* pred = model.predict(sample)[0]
DemoPredict ==
  /\ At("demo", "predict")
  /\ ~PredictRaises(loc.model, loc.sample)
  /\ Step("predict", "done", [loc EXCEPT !.pred = Predict(loc.model, loc.sample)[1]])
  /\ UNCHANGED outputs

(***************************************************************************)
(* check_model_accuracy.py                                                 *)
(***************************************************************************)
StartCheck == Start("check", "exists")

\* variant of the first statement of check_model_accuracy.py that goes on
\* whether or not the model file is there
CheckExistsProceeds ==
  /\ At("check", "exists")
  /\ Step("exists", "load", loc)
  /\ UNCHANGED outputs

\* if not os.path.exists('model_pipeline.pkl'): print(...); exit()
CheckExists ==
  /\ At("check", "exists")
  /\ \/ /\ modelFile.exists
        /\ Step("exists", "load", loc)
     \/ /\ ~modelFile.exists
        /\ pc' = "exited"
        /\ UNCHANGED <<script, trace, loc, exc, inputs>>
  /\ UNCHANGED outputs

\* model = joblib.load('model_pipeline.pkl')
CheckLoad ==
  /\ At("check", "load")
  /\ modelFile.exists
  /\ Step("load", "read", [loc EXCEPT !.model = modelFile.content])
  /\ UNCHANGED outputs

\* df = pd.read_csv("data/data.csv")
CheckRead ==
  /\ At("check", "read")
  /\ dataFile.exists
  /\ Step("read", "separate", [loc EXCEPT !.df = ReadCsv(dataFile)])
  /\ UNCHANGED outputs

\* X = df.drop(columns=["price", "index"]); y = df["price"]
CheckSeparate ==
  /\ At("check", "separate")
  /\ HasColumns(loc.df, <<"price", "index">>)
  /\ Step("separate", "split",
          [loc EXCEPT !.X = Drop(loc.df, <<"price", "index">>), !.y = Column(loc.df, "price")])
  /\ UNCHANGED outputs

\* variant of the split of check_model_accuracy.py with another seed
CheckSplitOtherSeed ==
  /\ At("check", "split")
  /\ ~SplitRaises(NRows(loc.X), TEST_SIZE)
  /\ Step("split", "predict", [loc EXCEPT !.parts = TrainTestSplit(loc.X, loc.y, TEST_SIZE, 0)])
  /\ UNCHANGED outputs

\* train_test_split(X, y, test_size=0.2, random_state=42)
CheckSplit ==
  /\ At("check", "split")
  /\ ~SplitRaises(NRows(loc.X), TEST_SIZE)
  /\ Step("split", "predict",
          [loc EXCEPT !.parts = TrainTestSplit(loc.X, loc.y, TEST_SIZE, RANDOM_STATE)])
  /\ UNCHANGED outputs

\* y_pred_train = model.predict(X_train); y_pred_val = model.predict(X_val)
CheckPredict ==
  /\ At("check", "predict")
  /\ ~PredictRaises(loc.model, loc.parts.X_train)
  /\ ~PredictRaises(loc.model, loc.parts.X_val)
  /\ Step("predict", "score",
          [loc EXCEPT !.predictions = [train |-> Predict(loc.model, loc.parts.X_train),
                                       val   |-> Predict(loc.model, loc.parts.X_val)]])
  /\ UNCHANGED outputs

\* the metrics of the training part and of the validation part
CheckScore ==
  /\ At("check", "score")
  /\ Step("score", "grade",
          [loc EXCEPT !.metrics =
             [mae_train  |-> Score("mean_absolute_error", loc.parts.y_train, loc.predictions.train),
              rmse_train |-> Score("root_mean_squared_error", loc.parts.y_train, loc.predictions.train),
              r2_train   |-> Score("r2", loc.parts.y_train, loc.predictions.train),
              mae_val    |-> Score("mean_absolute_error", loc.parts.y_val, loc.predictions.val),
              rmse_val   |-> Score("root_mean_squared_error", loc.parts.y_val, loc.predictions.val),
              r2_val     |-> Score("r2", loc.parts.y_val, loc.predictions.val)]])
  /\ UNCHANGED outputs

\* The verdicts.  The forest is symbolic, so the validation R2 and the
\* validation MAE as a percentage of the mean price (mae_percent) are any
\* of the values below: R2 in hundredths, around the two thresholds, and
\* NaN, which r2_score gives for a validation part of one row; the
\* percentage around its two thresholds, and NaN, which the division gives
\* for a mean price of zero.
R2_EXCELLENT == 85
R2_VERY_GOOD == 80
MAE_EXCELLENT == 15
MAE_VERY_GOOD == 20
R2Values == {NaN} \cup {Num(v) : v \in {R2_VERY_GOOD - 1, R2_VERY_GOOD, R2_EXCELLENT - 1, R2_EXCELLENT}}
MaePercents == {NaN} \cup {Num(v) : v \in {MAE_EXCELLENT - 1, MAE_EXCELLENT, MAE_VERY_GOOD - 1, MAE_VERY_GOOD}}

\* a >= b and a < b of Python floats: False when a is NaN
Geq(a, b) == a.kind = "num" /\ a.num >= b
Less(a, b) == a.kind = "num" /\ a.num < b

\* variant of the overall grade that takes a percentage on a threshold
\* for one under it
OverallGradeInclusive(r2_val, mae_percent) ==
  IF Geq(r2_val, R2_EXCELLENT) /\ Less(mae_percent, MAE_EXCELLENT + 1)
    THEN "EXCELLENT - Distinction Level"
  ELSE IF Geq(r2_val, R2_VERY_GOOD) /\ Less(mae_percent, MAE_VERY_GOOD + 1)
    THEN "VERY GOOD - Merit Level"
  ELSE "GOOD - Pass Level"

\* OVERALL GRADE: if r2_val >= 0.85 and mae_percent < 15 ... elif ... else
OverallGrade(r2_val, mae_percent) ==
  IF Geq(r2_val, R2_EXCELLENT) /\ Less(mae_percent, MAE_EXCELLENT)
    THEN "EXCELLENT - Distinction Level"
  ELSE IF Geq(r2_val, R2_VERY_GOOD) /\ Less(mae_percent, MAE_VERY_GOOD)
    THEN "VERY GOOD - Merit Level"
  ELSE "GOOD - Pass Level"

\* Key Takeaway: 'EXCELLENT' if r2_val >= 0.85 else 'GOOD'
KeyTakeaway(r2_val) == IF Geq(r2_val, R2_EXCELLENT) THEN "EXCELLENT" ELSE "GOOD"

\* mae_percent, the overall grade and the key takeaway
CheckGrade ==
  /\ At("check", "grade")
  /\ \E r2_val \in R2Values, mae_percent \in MaePercents :
       Step("grade", "done",
            [loc EXCEPT !.grade = [r2_val      |-> r2_val,
                                   mae_percent |-> mae_percent,
                                   overall     |-> OverallGrade(r2_val, mae_percent),
                                   takeaway    |-> KeyTakeaway(r2_val)]])
  /\ UNCHANGED outputs

(***************************************************************************)
(* feature_importance.py                                                   *)
(***************************************************************************)
TOP_N == 20

StartImportance == Start("importance", "load")

\* pipeline = joblib.load(MODEL_PATH)
ImportanceLoad ==
  /\ At("importance", "load")
  /\ \/ /\ modelFile.exists
        /\ Step("load", "table", [loc EXCEPT !.pipeline = modelFile.content])
        /\ UNCHANGED outputs
     \/ /\ ~modelFile.exists
        /\ Raise("FileNotFoundError", "library")

\* preprocess.get_feature_names_out(): the numeric columns, then one name
\* per category of each categorical column
FeatureNames(pipe) ==
  [k \in DOMAIN pipe.num_cols |-> <<"num", pipe.num_cols[k], "">>]
  \o Flatten([k \in DOMAIN pipe.cat_cols |->
       [j \in DOMAIN pipe.preprocess.categories[pipe.cat_cols[k]] |->
          <<"cat", pipe.cat_cols[k], pipe.preprocess.categories[pipe.cat_cols[k]][j]>>]])

\* model.feature_importances_: one non-negative weight per transformed
\* feature.  The forest being symbolic, the vector is drawn from a family:
\* for up to MaxEnumerated features every vector of shares in percent that
\* adds up to 100, ties and zeros included; for more features the ramp
\* 1..m turned by any number of places, as it is or with the two weights
\* next to the cut of the table made equal.
ImportanceShares == {0, 20, 30, 50, 100}
MaxEnumerated == 3
RECURSIVE SumSeq(_)
SumSeq(q) == IF q = <<>> THEN 0 ELSE Head(q) + SumSeq(Tail(q))
Ramp(m, turn, tied) ==
  [k \in 1..m |->
     LET v   == ((k - 1 + turn) % m) + 1
         cut == IF m > TOP_N THEN m - TOP_N ELSE 1
     IN IF tied /\ v = cut THEN v + 1 ELSE v]
FeatureImportances(m) ==
  IF m <= MaxEnumerated
    THEN {imp \in [1..m -> ImportanceShares] : SumSeq(imp) = 100}
    ELSE {Ramp(m, turn, tied) : turn \in 0..(m - 1), tied \in BOOLEAN}

\* sort_values("importance", ascending=False): the positions in an order of
\* non-increasing importance.  The sort is not stable, so equal weights
\* come in any order.
RECURSIVE SortsOf(_, _)
SortsOf(imp, S) ==
  IF S = {} THEN {<<>>}
  ELSE UNION {{<<i>> \o rest : rest \in SortsOf(imp, S \ {i})} :
                i \in {j \in S : \A l \in S : imp[j] >= imp[l]}}
SortOrders(imp) == SortsOf(imp, DOMAIN imp)

\* feature_names, importances and
\* imp_df = pd.DataFrame({"feature": ..., "importance": ...}).sort_values(...)
ImportanceTable ==
  /\ At("importance", "table")
  /\ LET names == FeatureNames(loc.pipeline)
     IN \E imp \in FeatureImportances(Len(names)) :
          \E order \in SortOrders(imp) :
            Step("table", "save",
                 [loc EXCEPT !.feature_names = names,
                             !.importances = imp,
                             !.imp_df =
                               [columns |-> <<"feature", "importance">>,
                                index   |-> [k \in DOMAIN order |-> order[k] - 1],
                                rows    |-> [k \in DOMAIN order |->
                                               [feature |-> names[order[k]],
                                                importance |-> imp[order[k]]]]]])
  /\ UNCHANGED outputs

\* variant of head that takes the rows from the end of the table
TailRows(frame, n) ==
  LET m == IF NRows(frame) < n THEN NRows(frame) ELSE n
      from == NRows(frame) - m
  IN [columns |-> frame.columns, index |-> SubSeq(frame.index, from + 1, from + m),
      rows |-> SubSeq(frame.rows, from + 1, from + m)]

\* df.head(n)
HeadRows(frame, n) ==
  LET m == IF NRows(frame) < n THEN NRows(frame) ELSE n
  IN [columns |-> frame.columns, index |-> SubSeq(frame.index, 1, m),
      rows |-> SubSeq(frame.rows, 1, m)]

\* imp_df.head(20).to_csv(OUT_CSV, index=False)
ImportanceSave ==
  /\ At("importance", "save")
  /\ Step("save", "done", loc)
  /\ written' = written \cup {[name |-> "outputs/feature_importance_top20.csv",
                               content |-> ToCsv(HeadRows(loc.imp_df, TOP_N))]}
  /\ UNCHANGED <<modelFile, submissionFile>>

(***************************************************************************)
(* feature_importance.py on the model of a wide table.  The script reads   *)
(* nothing but model_pipeline.pkl, so its runs are followed from any model *)
(* file a training run can leave: here the pipeline fit on a table of w    *)
(* numeric columns and the text column gas, for some w up to MaxWidth,     *)
(* which has w + 2 transformed features.                                   *)
(***************************************************************************)
Widths == {0, 1} \cup ((MaxWidth - 3)..MaxWidth)
WideColumns(w) == [k \in 1..w |-> "f" \o ToString(k)] \o <<"gas">>
WideTable(w) ==
  [columns |-> WideColumns(w),
   index   |-> <<0, 1>>,
   rows    |-> [k \in 1..2 |->
                  [c \in Range(WideColumns(w)) |->
                     IF c = "gas" THEN Str(SortedStrings[k]) ELSE Num(10 * k)]]]
WidePrices == [name |-> TARGET, index |-> <<0, 1>>, values |-> <<Num(100), Num(300)>>]
WidePipeline(w) ==
  Fit(NewPipeline(NumCols(WideTable(w)), CatCols(WideTable(w))), WideTable(w), WidePrices)

ImportanceInit ==
  /\ dataFile = NoFile
  /\ testFile = NoFile
  /\ modelFile \in {NoFile} \cup {File(WidePipeline(w)) : w \in Widths}
  /\ submissionFile = NoFile
  /\ written = {}
  /\ script = "none"
  /\ pc = "idle"
  /\ loc = NoLocals
  /\ exc = Unset
  /\ trace = <<>>

ImportanceNext ==
  \/ StartImportance \/ ImportanceLoad \/ ImportanceTable \/ ImportanceSave
  \/ Finish

ImportanceSpec == ImportanceInit /\ [][ImportanceNext]_vars

(***************************************************************************)
(* validate_cv.py                                                          *)
(***************************************************************************)
StartCv == Start("cv", "read")

\* df = pd.read_csv(DATA_PATH)
CvRead ==
  /\ At("cv", "read")
  /\ \/ /\ dataFile.exists
        /\ Step("read", "separate", [loc EXCEPT !.df = ReadCsv(dataFile)])
        /\ UNCHANGED outputs
     \/ /\ ~dataFile.exists
        /\ Raise("FileNotFoundError", "library")

\* X = df.drop(columns=[TARGET, "index"]); y = df[TARGET]
CvSeparate ==
  /\ At("cv", "separate")
  /\ \/ /\ HasColumns(loc.df, <<TARGET, "index">>)
        /\ Step("separate", "build",
                [loc EXCEPT !.X = Drop(loc.df, <<TARGET, "index">>),
                            !.y = Column(loc.df, TARGET)])
        /\ UNCHANGED outputs
     \/ /\ ~HasColumns(loc.df, <<TARGET, "index">>)
        /\ Raise("KeyError", "library")

\* the column lists, the unfitted pipeline and the KFold object
CvBuild ==
  /\ At("cv", "build")
  /\ Step("build", "mae",
          [loc EXCEPT !.pipeline = NewPipeline(NumCols(loc.X), CatCols(loc.X)),
                      !.scores = [mae |-> Unset, rmse |-> Unset, r2 |-> Unset]])
  /\ UNCHANGED outputs

\* cross_val_score(pipeline, X, y, cv=kf, scoring=metric): for every fold a
\* clone of the pipeline is fit on the fold's training part and scored on
\* its test part
CrossValScore(pipe, X, y, metric, n_splits, seed) ==
  LET folds == KFoldSplit(NRows(X), n_splits, seed)
  IN [k \in DOMAIN folds |->
        LET estimator == Fit(pipe, Take(X, folds[k].train), TakeSeries(y, folds[k].train))
        IN [train |-> folds[k].train, test |-> folds[k].test,
            fit_index |-> estimator.fit_index,
            preprocess |-> estimator.preprocess,
            score |-> Score(metric, TakeSeries(y, folds[k].test),
                            Predict(estimator, Take(X, folds[k].test)))]]

\* mae_scores = -cross_val_score(..., scoring="neg_mean_absolute_error")
CvMae ==
  /\ At("cv", "mae")
  /\ \/ /\ ~KFoldRaises(NRows(loc.X), N_SPLITS)
        /\ Step("mae", "rmse",
                [loc EXCEPT !.scores.mae =
                   CrossValScore(loc.pipeline, loc.X, loc.y, "mean_absolute_error",
                                 N_SPLITS, RANDOM_STATE)])
        /\ UNCHANGED outputs
     \/ /\ KFoldRaises(NRows(loc.X), N_SPLITS)
        /\ Raise("ValueError", "library")

\* rmse_scores = np.sqrt(-cross_val_score(..., scoring="neg_mean_squared_error"))
CvRmse ==
  /\ At("cv", "rmse")
  /\ ~KFoldRaises(NRows(loc.X), N_SPLITS)
  /\ Step("rmse", "r2",
          [loc EXCEPT !.scores.rmse =
             CrossValScore(loc.pipeline, loc.X, loc.y, "root_mean_squared_error",
                           N_SPLITS, RANDOM_STATE)])
  /\ UNCHANGED outputs

\* r2_scores = cross_val_score(..., scoring="r2")
CvR2 ==
  /\ At("cv", "r2")
  /\ ~KFoldRaises(NRows(loc.X), N_SPLITS)
  /\ Step("r2", "done",
          [loc EXCEPT !.scores.r2 =
             CrossValScore(loc.pipeline, loc.X, loc.y, "r2", N_SPLITS, RANDOM_STATE)])
  /\ UNCHANGED outputs

(***************************************************************************)
(* eda_report.py                                                           *)
(***************************************************************************)
DATA_PATHS_TO_TRY == <<"data/train.csv", "data/train_clean.csv", "train.csv", "train_clean.csv">>
TARGET_COL == "price"

\* the table each candidate file holds when it exists: the k-th has k rows,
\* and every second one has no price column
EdaTable(k) ==
  Frame(IF k % 2 = 1 THEN <<"index", "total_area", "gas", "price">>
                     ELSE <<"index", "total_area", "gas">>, k, 0, 1)

\* which of the candidate files exist is an input of the run
StartEda ==
  /\ At("none", "idle")
  /\ \E exists \in SUBSET Range(DATA_PATHS_TO_TRY) :
       /\ script' = "eda_report"
       /\ pc' = "load_data"
       /\ loc' = [loc EXCEPT !.exists = exists]
  /\ UNCHANGED <<exc, trace, inputs, outputs>>

\* variant of the loop of load_data that keeps the last path that exists
LastExisting(paths, exists) ==
  CHOOSE k \in DOMAIN paths :
    /\ paths[k] \in exists
    /\ \A j \in (k + 1)..Len(paths) : paths[j] \notin exists

\* load_data(): the first path of the list that exists is read; with none
\* the function raises FileNotFoundError itself
FirstExisting(paths, exists) ==
  CHOOSE k \in DOMAIN paths :
    /\ paths[k] \in exists
    /\ \A j \in 1..(k - 1) : paths[j] \notin exists
\* variant of load_data that reads the first path without testing for it,
\* so that a missing file is pandas' error
EdaLoadUnchecked ==
  /\ At("eda_report", "load_data")
  /\ \/ /\ DATA_PATHS_TO_TRY[1] \in loc.exists
        /\ Step("load_data", "summary", [loc EXCEPT !.df = EdaTable(1)])
        /\ UNCHANGED outputs
     \/ /\ DATA_PATHS_TO_TRY[1] \notin loc.exists
        /\ Raise("FileNotFoundError", "library")


EdaLoad ==
  /\ At("eda_report", "load_data")
  /\ \/ /\ \E k \in DOMAIN DATA_PATHS_TO_TRY : DATA_PATHS_TO_TRY[k] \in loc.exists
        /\ Step("load_data", "summary",
                [loc EXCEPT !.df = EdaTable(FirstExisting(DATA_PATHS_TO_TRY, loc.exists))])
        /\ UNCHANGED outputs
     \/ /\ \A k \in DOMAIN DATA_PATHS_TO_TRY : DATA_PATHS_TO_TRY[k] \notin loc.exists
        /\ Raise("FileNotFoundError", "script")

\* main, 1): save_table(info, "dataset_summary.csv")
EdaSummary ==
  /\ At("eda_report", "summary")
  /\ Step("summary", "report", loc)
  /\ written' = written \cup
       {[name |-> "outputs_eda/dataset_summary.csv",
         content |-> [rows |-> NRows(loc.df), columns |-> Len(loc.df.columns),
                      target_present |-> Contains(loc.df.columns, TARGET_COL)]]}
  /\ UNCHANGED <<modelFile, submissionFile>>

\* main, 2) to 7): the other tables and the figures; those about the price
\* only when the table has the column
EdaReport ==
  /\ At("eda_report", "report")
  /\ Step("report", "done", loc)
  /\ written' = written \cup
       {[name |-> f, content |-> Unset] :
          f \in {"outputs_eda/missing_values.csv", "outputs_eda/duplicates.csv",
                 "outputs_eda/value_counts_gas.csv"}
                \cup (IF Contains(loc.df.columns, TARGET_COL)
                        THEN {"outputs_eda/price_skewness.csv",
                              "outputs_eda/correlation_matrix.csv",
                              "outputs_eda/percentiles_total_area.csv"}
                        ELSE {})}
  /\ UNCHANGED <<modelFile, submissionFile>>

(***************************************************************************)
(* eda_clean.py                                                            *)
(***************************************************************************)
StartEdaClean == Start("eda_clean", "read")

\* df = pd.read_csv("data/data.csv")
EdaCleanRead ==
  /\ At("eda_clean", "read")
  /\ \/ /\ dataFile.exists
        /\ Step("read", "print", [loc EXCEPT !.df = ReadCsv(dataFile)])
        /\ UNCHANGED outputs
     \/ /\ ~dataFile.exists
        /\ Raise("FileNotFoundError", "library")

\* the prints of head, shape, columns, missing values, dtypes, describe
EdaCleanPrint ==
  /\ At("eda_clean", "print")
  /\ Step("print", "done", loc)
  /\ UNCHANGED outputs

(***************************************************************************)
(* find_target_clean.py                                                    *)
(***************************************************************************)
StartFindTarget == Start("find_target", "read")

\* train_df = pd.read_csv("data/data.csv")
FindTargetRead ==
  /\ At("find_target", "read")
  /\ \/ /\ dataFile.exists
        /\ Step("read", "read_test", [loc EXCEPT !.df = ReadCsv(dataFile)])
        /\ UNCHANGED outputs
     \/ /\ ~dataFile.exists
        /\ Raise("FileNotFoundError", "library")

\* test_df = pd.read_csv("data/test.csv")
FindTargetReadTest ==
  /\ At("find_target", "read_test")
  /\ \/ /\ testFile.exists
        /\ Step("read_test", "target", [loc EXCEPT !.test_df = ReadCsv(testFile)])
        /\ UNCHANGED outputs
     \/ /\ ~testFile.exists
        /\ Raise("FileNotFoundError", "library")

\* target_cols = [c for c in train_df.columns if c not in test_df.columns]
FindTargetColumns ==
  /\ At("find_target", "target")
  /\ Step("target", "done",
          [loc EXCEPT !.target_cols = Without(loc.df.columns, Range(loc.test_df.columns))])
  /\ UNCHANGED outputs

(***************************************************************************)
(* plots.py                                                                *)
(***************************************************************************)
StartPlots == Start("plots", "read")

\* df = pd.read_csv(DATA_PATH)
PlotsRead ==
  /\ At("plots", "read")
  /\ \/ /\ dataFile.exists
        /\ Step("read", "drop_id", [loc EXCEPT !.df = ReadCsv(dataFile)])
        /\ UNCHANGED outputs
     \/ /\ ~dataFile.exists
        /\ Raise("FileNotFoundError", "library")

\* df_no_id = df.drop(columns=["index"]) if "index" in df.columns else df.copy()
PlotsDropId ==
  /\ At("plots", "drop_id")
  /\ Step("drop_id", "separate",
          [loc EXCEPT !.df_no_id = IF Contains(loc.df.columns, "index")
                                     THEN Drop(loc.df, <<"index">>) ELSE loc.df])
  /\ UNCHANGED outputs

\* X = df_no_id.drop(columns=[TARGET]); y = df_no_id[TARGET]
PlotsSeparate ==
  /\ At("plots", "separate")
  /\ \/ /\ HasColumns(loc.df_no_id, <<TARGET>>)
        /\ Step("separate", "figures",
                [loc EXCEPT !.X = Drop(loc.df_no_id, <<TARGET>>),
                            !.y = Column(loc.df_no_id, TARGET)])
        /\ UNCHANGED outputs
     \/ /\ ~HasColumns(loc.df_no_id, <<TARGET>>)
        /\ Raise("KeyError", "library")

\* the figures 1) to 5); 3) and 4) only with their column in the table
PlotsFigures ==
  /\ At("plots", "figures")
  /\ Step("figures", "done", loc)
  /\ written' = written \cup
       {[name |-> f, content |-> Unset] :
          f \in {"outputs/01_price_hist.png", "outputs/02_log_price_hist.png",
                 "outputs/05_corr_heatmap.png"}
                \cup (IF Contains(loc.df_no_id.columns, "total_area")
                        THEN {"outputs/03_total_area_vs_price.png"} ELSE {})
                \cup (IF Contains(loc.df_no_id.columns, "district_name")
                        THEN {"outputs/04_price_by_district_boxplot.png"} ELSE {})}
  /\ UNCHANGED <<modelFile, submissionFile>>

Next ==
  \/ StartTrain \/ TrainRead \/ TrainSeparate \/ TrainBuild \/ TrainSplit
  \/ TrainFit \/ TrainPredict \/ TrainScore \/ TrainSave
  \/ StartPredict \/ PredictLoad \/ PredictRead \/ PredictPrepare
  \/ PredictPredict \/ PredictBuild \/ PredictSave
  \/ StartDemo \/ DemoLoad \/ DemoRead \/ DemoSample \/ DemoDropIndex \/ DemoPredict
  \/ StartCheck \/ CheckExists \/ CheckLoad \/ CheckRead \/ CheckSeparate
  \/ CheckSplit \/ CheckPredict \/ CheckScore \/ CheckGrade
  \/ StartImportance \/ ImportanceLoad \/ ImportanceTable \/ ImportanceSave
  \/ StartCv \/ CvRead \/ CvSeparate \/ CvBuild \/ CvMae \/ CvRmse \/ CvR2
  \/ StartEda \/ EdaLoad \/ EdaSummary \/ EdaReport
  \/ StartEdaClean \/ EdaCleanRead \/ EdaCleanPrint
  \/ StartFindTarget \/ FindTargetRead \/ FindTargetReadTest \/ FindTargetColumns
  \/ StartPlots \/ PlotsRead \/ PlotsDropId \/ PlotsSeparate \/ PlotsFigures
  \/ Finish

Spec == Init /\ [][Next]_vars

(***************************************************************************)
(* Runs of train_model_clean.py and predict_clean.py in a directory that   *)
(* earlier runs, on other data, may have left a model_pipeline.pkl and a   *)
(* submission.csv in.                                                      *)
(***************************************************************************)
OldModel == WidePipeline(1)
OldSubmission ==
  ToCsv(Submission([name |-> "index", index |-> <<0>>, values |-> <<Num(7)>>],
                   Predict(OldModel, Take(WideTable(1), <<0>>))))

RerunInit ==
  /\ dataFile \in {NoFile} \cup {File(t) : t \in DataTables}
  /\ testFile \in {NoFile} \cup {File(t) : t \in TestTables}
  /\ modelFile \in {NoFile, File(OldModel)}
  /\ submissionFile \in {NoFile, File(OldSubmission)}
  /\ written = {}
  /\ script = "none"
  /\ pc = "idle"
  /\ loc = NoLocals
  /\ exc = Unset
  /\ trace = <<>>

RerunNext ==
  \/ StartTrain \/ TrainRead \/ TrainSeparate \/ TrainBuild \/ TrainSplit
  \/ TrainFit \/ TrainPredict \/ TrainScore \/ TrainSave
  \/ StartPredict \/ PredictLoad \/ PredictRead \/ PredictPrepare
  \/ PredictPredict \/ PredictBuild \/ PredictSave
  \/ Finish

RerunSpec == RerunInit /\ [][RerunNext]_vars

(***************************************************************************)
(* Properties.                                                             *)
(***************************************************************************)
\* the running script has performed the step
Performed(s, step) == script = s /\ Contains(trace, step)

\* the feature table and the training part that train_model_clean.py
\* derives from data/data.csv
DataX == Drop(dataFile.content, <<TARGET, "index">>)
DataY == Column(dataFile.content, TARGET)
DataParts == TrainTestSplit(DataX, DataY, TEST_SIZE, RANDOM_STATE)

\* where the one-hot block of the k-th categorical column starts
RECURSIVE BlockStart(_, _)
BlockStart(pipe, k) ==
  IF k = 1 THEN Len(pipe.num_cols)
  ELSE BlockStart(pipe, k - 1) + Len(pipe.preprocess.categories[pipe.cat_cols[k - 1]])

\* prediction p is the forest of pipe applied to the row as preprocessed
\* with the statistics stored in pipe: a missing number is the stored
\* median, a missing text the stored most frequent value, and the one-hot
\* block is over the stored categories
UsesFitted(p, pipe, row) ==
  /\ p.forest = pipe.forest
  /\ \A k \in DOMAIN pipe.num_cols :
       LET c == pipe.num_cols[k]
       IN p.x[k] = IF IsNaN(row[c]) THEN pipe.preprocess.medians[c] ELSE row[c]
  /\ \A k \in DOMAIN pipe.cat_cols :
       LET c == pipe.cat_cols[k]
           v == IF IsNaN(row[c]) THEN pipe.preprocess.modes[c] ELSE row[c]
       IN \A j \in DOMAIN pipe.preprocess.categories[c] :
            (p.x[BlockStart(pipe, k) + j] = Num(1)) <=> (v.str = pipe.preprocess.categories[c][j])
  /\ Len(p.x) = BlockStart(pipe, Len(pipe.cat_cols) + 1)

AllUseFitted(preds, pipe, X) ==
  /\ Len(preds) = NRows(X)
  /\ \A k \in DOMAIN preds : UsesFitted(preds[k], pipe, X.rows[k])

\* C1: the saved object holds the fitted preprocessing and the forest, as
\* fit on the training part; an inference script works on the object it
\* loaded, which stays the saved one, and every prediction it makes is the
\* saved forest on the row preprocessed with the saved statistics.
C1_FitAndAppliedAsUnit ==
  /\ modelFile.exists =>
       /\ modelFile.content.fitted
       /\ modelFile.content.preprocess =
            FitPreprocess(modelFile.content, DataParts.X_train)
       /\ Len(modelFile.content.forest.X) = NRows(DataParts.X_train)
  /\ (script \in {"predict", "demo", "check"} /\ Contains(trace, "load")) =>
       loc.model = modelFile.content
  /\ Performed("predict", "predict") =>
       AllUseFitted(loc.predictions, modelFile.content, loc.X_test)
  /\ Performed("demo", "predict") =>
       UsesFitted(loc.pred, modelFile.content, loc.sample.rows[1])
  /\ Performed("check", "predict") =>
       /\ AllUseFitted(loc.predictions.train, modelFile.content, loc.parts.X_train)
       /\ AllUseFitted(loc.predictions.val, modelFile.content, loc.parts.X_val)

\* a prediction has been made for a test row with a missing number and a
\* test row whose text the training part may not hold
C1_Witness ==
  /\ Performed("predict", "predict")
  /\ \E k \in DOMAIN loc.X_test.rows : IsNaN(loc.X_test.rows[k]["total_area"])
  /\ modelFile.content.preprocess.categories["gas"] = <<"yes">>

\* C2: a written submission has the two columns index and price, in that
\* order, and one row per row of the test table, in the table's order:
\* row k holds the prediction for test row k.
C2_SubmissionShape ==
  submissionFile.exists =>
    LET sub  == submissionFile.content
        test == testFile.content
    IN /\ sub.columns = <<"index", "price">>
       /\ Len(sub.rows) = NRows(test)
       /\ \A k \in DOMAIN sub.rows :
            /\ DOMAIN sub.rows[k] = {"index", "price"}
            /\ UsesFitted(sub.rows[k].price, modelFile.content, test.rows[k])

C2_Witness ==
  /\ At("predict", "done")
  /\ submissionFile.exists
  /\ Len(submissionFile.content.rows) = MaxTestRows

\* C3: with an index column in the test table, submission row k carries
\* the index value of test row k and the features exclude that column;
\* without one, the submission index is 0..n-1 and every test column is a
\* feature.
C3_IndexPreserved ==
  /\ (Performed("predict", "take_index") \/ Performed("predict", "make_index")) =>
       /\ Performed("predict", "take_index") <=> Contains(testFile.content.columns, "index")
       /\ loc.X_test.columns = Without(testFile.content.columns, {"index"})
       /\ \A k \in DOMAIN loc.X_test.rows :
            DOMAIN loc.X_test.rows[k] = Range(testFile.content.columns) \ {"index"}
  /\ submissionFile.exists =>
       LET sub  == submissionFile.content
           test == testFile.content
       IN \A k \in DOMAIN sub.rows :
            sub.rows[k].index = IF Contains(test.columns, "index")
                                  THEN test.rows[k]["index"] ELSE Num(k - 1)

C3_Witness ==
  /\ submissionFile.exists
  /\ Contains(testFile.content.columns, "index")
  /\ Len(submissionFile.content.rows) = MaxTestRows
  /\ submissionFile.content.rows[MaxTestRows].index # Num(MaxTestRows - 1)

\* the columns the loaded pipeline was fit on
FitColumns(pipe) == pipe.num_cols \o pipe.cat_cols

\* C4: when the test table lacks a column the pipeline was fit on, the run
\* of predict_clean.py gets no further than the predict call, which raises
\* the library's ValueError, and the run does not write submission.csv.
C4_MissingColumnRaises ==
  (/\ script = "predict"
   /\ Len(trace) >= 3
   /\ ~HasColumns(loc.X_test, FitColumns(loc.model))) =>
     /\ pc \in {"predict", "raised"}
     /\ pc = "raised" => exc = [type |-> "ValueError", origin |-> "library"]
     /\ trace \in {<<"load", "read", "take_index">>, <<"load", "read", "make_index">>}

C4_Witness ==
  /\ At("predict", "raised")
  /\ Len(trace) >= 3
  /\ NRows(loc.X_test) > 0
  /\ ~HasColumns(loc.X_test, FitColumns(loc.model))
  /\ submissionFile = NoFile

\* C5: the 80/20 split of train_model_clean.py partitions the rows: the
\* two parts are disjoint, hold every row once, the validation part has a
\* fifth of the rows rounded up and the training part the rest, and every
\* feature row keeps its own price.
IsSplitOf(parts, X, y) ==
  LET n  == NRows(X)
      tr == parts.X_train.index
      va == parts.X_val.index
  IN /\ Range(tr) \cap Range(va) = {}
     /\ Range(tr) \cup Range(va) = Range(X.index)
     /\ Cardinality(Range(tr)) = Len(tr)
     /\ Cardinality(Range(va)) = Len(va)
     /\ 5 * Len(va) >= n /\ 5 * (Len(va) - 1) < n
     /\ Len(tr) = n - Len(va)
     /\ parts.y_train.index = tr /\ parts.y_val.index = va
     /\ \A k \in DOMAIN tr :
          /\ parts.X_train.rows[k] = X.rows[tr[k] + 1]
          /\ parts.y_train.values[k] = y.values[tr[k] + 1]
     /\ \A k \in DOMAIN va :
          /\ parts.X_val.rows[k] = X.rows[va[k] + 1]
          /\ parts.y_val.values[k] = y.values[va[k] + 1]

C5_SplitPartitions ==
  Performed("train", "split") => IsSplitOf(loc.parts, loc.X, loc.y)

C5_Witness ==
  /\ Performed("train", "split")
  /\ NRows(loc.X) = MaxRows
  /\ Len(loc.parts.X_val.index) = NTest(MaxRows, TEST_SIZE)

\* C6: model_pipeline.pkl comes into being only by the last step of a
\* run of train_model_clean.py that has performed every step before it;
\* submission.csv is written, and a prediction or an importance table is
\* produced, only while the model file exists.
C6_ModelFromTraining ==
  (modelFile' # modelFile) =>
     /\ At("train", "save")
     /\ trace = <<"read", "separate", "build", "split", "fit", "predict", "score">>
     /\ pc' = "done"
     /\ modelFile' = File(loc.pipeline)
     /\ loc.pipeline.fitted
C6_ResultNeedsModel ==
  /\ (submissionFile' # submissionFile) =>
       (At("predict", "save") /\ modelFile.exists /\ modelFile' = modelFile)
  /\ (/\ script \in {"predict", "demo", "check", "importance"}
      /\ Len(trace') > Len(trace)
      /\ trace'[Len(trace')] \in {"predict", "table"}) =>
       (modelFile.exists /\ modelFile' = modelFile)
C6_TrainedBeforePredicting ==
  /\ [](submissionFile.exists => modelFile.exists)
  /\ [](modelFile.exists => modelFile.content.fitted)
  /\ [][C6_ModelFromTraining /\ C6_ResultNeedsModel]_vars

C6_Witness ==
  /\ At("predict", "done")
  /\ submissionFile.exists
  /\ modelFile.exists

\* the steps of the two scripts, in the order of their statements
TrainSteps == <<"read", "separate", "build", "split", "fit", "predict", "score", "save">>
PredictSteps(has_index) ==
  <<"load", "read", IF has_index THEN "take_index" ELSE "make_index", "predict", "build", "save">>
TrainPcs == <<"read", "separate", "build", "split", "fit", "predict", "score", "save", "done">>
PredictPcs == <<"load", "read", "prepare", "predict", "build", "save", "done">>

\* C7 as stated, for the runs that end without an exception: every such
\* run of train_model_clean.py has performed split, fit, predict, score and
\* save, and every such run of predict_clean.py has performed the same
\* steps, whatever the test table.
C7_FixedSequence ==
  /\ At("train", "done") =>
       Without(trace, {"read", "separate", "build"}) = <<"split", "fit", "predict", "score", "save">>
  /\ At("predict", "done") => trace = PredictSteps(TRUE)

\* C7 (amended): the steps a run of train_model_clean.py has performed are
\* an initial part of read, separate, build, split, fit, predict, score,
\* save, its next statement is the next of these, and it has performed all
\* of them exactly when it is done; a run that raised stopped short.  The
\* same holds of predict_clean.py with load, read, prepare, predict,
\* build, save, where the prepare step is one of two: taking the index
\* column, when the test table has one, or numbering the rows.
C7_PrefixOfSequence ==
  /\ script = "train" =>
       /\ IsPrefix(trace, TrainSteps)
       /\ pc # "raised" => pc = TrainPcs[Len(trace) + 1]
       /\ pc = "raised" => Len(trace) \in {0, 1, 3}
  /\ script = "predict" =>
       /\ IsPrefix(trace, PredictSteps(testFile.exists /\ Contains(testFile.content.columns, "index")))
       /\ pc # "raised" => pc = PredictPcs[Len(trace) + 1]
       /\ pc = "raised" => Len(trace) \in {0, 1, 3}

C7_Witness ==
  /\ At("predict", "done")
  /\ trace = PredictSteps(FALSE)

FitOnlyOn(pipe, X_train, y_train) ==
  /\ pipe.fit_index = X_train.index
  /\ \A c \in Range(pipe.num_cols) : pipe.preprocess.medians[c] = Median(X_train, c)
  /\ \A c \in Range(pipe.cat_cols) :
       /\ pipe.preprocess.modes[c] = MostFrequent(X_train, c)
       /\ Range(pipe.preprocess.categories[c]) =
            {(IF IsNaN(X_train.rows[k][c]) THEN pipe.preprocess.modes[c] ELSE X_train.rows[k][c]).str :
               k \in DOMAIN X_train.rows}
  /\ Len(pipe.forest.X) = NRows(X_train)
  /\ pipe.forest.y = y_train.values

FoldsDoNotLeak(folds, X) ==
  \A k \in DOMAIN folds :
    /\ Range(folds[k].fit_index) \cap Range(folds[k].test) = {}
    /\ Range(folds[k].fit_index) = UNION {Range(folds[j].test) : j \in DOMAIN folds \ {k}}
    /\ folds[k].preprocess = FitPreprocess(loc.pipeline, Take(X, folds[k].fit_index))

C10_SameSplit ==
  Performed("check", "split") =>
    /\ loc.parts = DataParts
    /\ loc.parts.X_train.index = loc.model.fit_index
    /\ Range(loc.parts.X_val.index) = Range(loc.X.index) \ Range(loc.model.fit_index)
    /\ Transform(loc.model.preprocess, loc.model.num_cols, loc.model.cat_cols, loc.parts.X_train)
         = loc.model.forest.X
    /\ loc.parts.y_train.values = loc.model.forest.y

C10_Witness ==
  /\ Performed("check", "score")
  /\ NRows(loc.X) >= 3

\* C11: a run of check_model_accuracy.py that finds no model_pipeline.pkl
\* ends at its first statement by its own exit, having loaded no model,
\* read no data and computed no prediction or metric; a run that finds the
\* file goes on to load it, and the metrics it computes are those of the
\* loaded file.
C11_ExistsStep ==
  At("check", "exists") =>
     IF modelFile.exists
       THEN pc' = "load" /\ trace' = <<"exists">>
       ELSE pc' = "exited" /\ trace' = <<>> /\ loc' = NoLocals /\ exc' = Unset
C11_ExitsWithoutModel ==
  /\ [](At("check", "exited") =>
          (~modelFile.exists /\ trace = <<>> /\ loc = NoLocals /\ exc = Unset))
  /\ []((script = "check" /\ pc \notin {"exists", "exited"}) =>
          (modelFile.exists /\ Contains(trace, "exists")))
  /\ [](Performed("check", "load") => loc.model = modelFile.content)
  /\ [](Performed("check", "score") =>
          (/\ IsPrefix(<<"exists", "load", "read", "separate", "split", "predict", "score">>, trace)
           /\ DOMAIN loc.metrics = {"mae_train", "rmse_train", "r2_train",
                                    "mae_val", "rmse_val", "r2_val"}))
  /\ [][C11_ExistsStep]_vars

\* the check has stopped for want of a model while the data file is there
C11_Witness ==
  /\ At("check", "exited")
  /\ dataFile.exists
  /\ NRows(dataFile.content) > 0

\* C12: the folds of validate_cv.py partition the rows: there are five,
\* every row is in the validation part of exactly one fold and in the
\* training part of the four others, and no fold holds a row twice.  The
\* three score lists are over the same folds: score k of each metric is
\* computed from the prices and the predictions of the same validation
\* rows.
IsKFoldPartition(folds, X, y) ==
  /\ Len(folds) = 5
  /\ \A i \in Range(X.index) :
       /\ Cardinality({k \in DOMAIN folds : Contains(folds[k].test, i)}) = 1
       /\ Cardinality({k \in DOMAIN folds : Contains(folds[k].train, i)}) = 4
  /\ \A k \in DOMAIN folds :
       /\ Range(folds[k].test) \cup Range(folds[k].train) = Range(X.index)
       /\ Range(folds[k].test) \cap Range(folds[k].train) = {}
       /\ Cardinality(Range(folds[k].test)) = Len(folds[k].test)
       /\ Cardinality(Range(folds[k].train)) = Len(folds[k].train)
       /\ Len(folds[k].test) >= 1
       /\ folds[k].score.y_true = [j \in DOMAIN folds[k].test |-> y.values[folds[k].test[j] + 1]]
       /\ Len(folds[k].score.y_pred) = Len(folds[k].test)

SameFolds(a, b) ==
  \A k \in DOMAIN a :
    /\ a[k].test = b[k].test
    /\ a[k].train = b[k].train
    /\ a[k].score.y_true = b[k].score.y_true
    /\ a[k].score.y_pred = b[k].score.y_pred

C12_FoldsPartition ==
  /\ Performed("cv", "mae") => IsKFoldPartition(loc.scores.mae, loc.X, loc.y)
  /\ Performed("cv", "rmse") =>
       /\ IsKFoldPartition(loc.scores.rmse, loc.X, loc.y)
       /\ SameFolds(loc.scores.mae, loc.scores.rmse)
  /\ Performed("cv", "r2") =>
       /\ IsKFoldPartition(loc.scores.r2, loc.X, loc.y)
       /\ SameFolds(loc.scores.mae, loc.scores.r2)
       /\ {loc.scores.mae[1].score.metric, loc.scores.rmse[1].score.metric,
           loc.scores.r2[1].score.metric}
            = {"mean_absolute_error", "root_mean_squared_error", "r2"}

\* the three lists are there, and one fold validates on two rows
C12_Witness ==
  /\ At("cv", "done")
  /\ Performed("cv", "r2")
  /\ \E k \in DOMAIN loc.scores.r2 : Len(loc.scores.r2[k].test) = 2

\* C13: the table feature_importance.py saves has 20 rows, or one per
\* transformed feature when there are fewer; every row pairs a feature
\* name with that feature's importance in the fitted forest, no feature
\* comes twice, the importances do not increase down the table, and no
\* feature left out has an importance above one of a feature in it.
TopTable == CHOOSE f \in written : f.name = "outputs/feature_importance_top20.csv"
InTable(t, name) == \E k \in DOMAIN t.rows : t.rows[k].feature = name
C13_TopTwenty ==
  At("importance", "done") =>
    /\ \E f \in written : f.name = "outputs/feature_importance_top20.csv"
    /\ LET t     == TopTable.content
           names == FeatureNames(modelFile.content)
           imp   == loc.importances
           m     == Len(names)
       IN /\ t.columns = <<"feature", "importance">>
          /\ Len(imp) = m
          /\ Len(t.rows) = IF m < 20 THEN m ELSE 20
          /\ \A k \in DOMAIN t.rows :
               \E i \in 1..m : /\ t.rows[k].feature = names[i]
                               /\ t.rows[k].importance = imp[i]
          /\ \A j, k \in DOMAIN t.rows : j # k => t.rows[j].feature # t.rows[k].feature
          /\ \A k \in 1..(Len(t.rows) - 1) : t.rows[k].importance >= t.rows[k + 1].importance
          /\ \A i \in 1..m :
               ~InTable(t, names[i]) => \A k \in DOMAIN t.rows : imp[i] <= t.rows[k].importance

\* a table of 20 rows has been saved that leaves features out, one of them
\* as important as the last feature in the table
C13_Witness ==
  /\ At("importance", "done")
  /\ Len(TopTable.content.rows) = 20
  /\ Len(loc.importances) > 20
  /\ \E i \in DOMAIN loc.importances :
       /\ ~InTable(TopTable.content, loc.feature_names[i])
       /\ loc.importances[i] = TopTable.content.rows[20].importance

\* C14: once load_data of eda_report.py has run, either some listed path
\* exists, and the table main works on is the one of the first such path in
\* list order and of no other, data/train.csv whenever it exists; or none
\* exists, and the run has ended with the FileNotFoundError the function
\* raises, with no table read and no report file written.
C14_FirstExistingPath ==
  (script = "eda_report" /\ pc # "load_data") =>
     /\ (pc = "raised") <=> (loc.exists \cap Range(DATA_PATHS_TO_TRY) = {})
     /\ pc = "raised" =>
          /\ exc = [type |-> "FileNotFoundError", origin |-> "script"]
          /\ loc.df = Unset
          /\ written = {}
     /\ pc # "raised" =>
          \E k \in DOMAIN DATA_PATHS_TO_TRY :
            /\ DATA_PATHS_TO_TRY[k] \in loc.exists
            /\ \A j \in 1..(k - 1) : DATA_PATHS_TO_TRY[j] \notin loc.exists
            /\ loc.df = EdaTable(k)
            /\ \A j \in DOMAIN DATA_PATHS_TO_TRY \ {k} : loc.df # EdaTable(j)
     /\ "data/train.csv" \in loc.exists => loc.df = EdaTable(1)

\* the first path is missing and two later ones exist: the table is the
\* one of the earlier of them
C14_Witness ==
  /\ At("eda_report", "done")
  /\ loc.exists = {"data/train_clean.csv", "train_clean.csv"}
  /\ loc.df = EdaTable(2)

\* C15: the two lists that train_model_clean.py and validate_cv.py build
\* partition the feature columns: every column of the data table but price
\* and index is in exactly one of them, the categorical list when its type
\* is object and the numerical list otherwise; no list holds price or
\* index or a column twice; each keeps the order of the table; and the
\* fitted preprocessing has a median for every numerical column and a most
\* frequent value and categories for every categorical one, and for no
\* other.
ListsPartition(num, cat, df) ==
  LET feats == Without(df.columns, {"price", "index"})
  IN /\ Range(num) \cup Range(cat) = Range(feats)
     /\ Range(num) \cap Range(cat) = {}
     /\ Len(num) + Len(cat) = Len(feats)
     /\ "price" \notin Range(num) \cup Range(cat)
     /\ "index" \notin Range(num) \cup Range(cat)
     /\ \A c \in Range(feats) :
          c \in Range(cat) <=>
            (NRows(df) = 0 \/ \E k \in DOMAIN df.rows : df.rows[k][c].kind = "str")
     /\ \A i, j \in DOMAIN feats :
          i < j =>
            /\ \A a, b \in DOMAIN num : (num[a] = feats[i] /\ num[b] = feats[j]) => a < b
            /\ \A a, b \in DOMAIN cat : (cat[a] = feats[i] /\ cat[b] = feats[j]) => a < b

C15_TypesPartition ==
  /\ (Performed("train", "build") \/ Performed("cv", "build")) =>
       ListsPartition(loc.pipeline.num_cols, loc.pipeline.cat_cols, dataFile.content)
  /\ Performed("train", "fit") =>
       /\ DOMAIN loc.pipeline.preprocess.medians = Range(loc.pipeline.num_cols)
       /\ DOMAIN loc.pipeline.preprocess.modes = Range(loc.pipeline.cat_cols)
       /\ DOMAIN loc.pipeline.preprocess.categories = Range(loc.pipeline.cat_cols)

\* a pipeline has been fit on a table whose numerical columns stand on
\* both sides of its categorical column
C15_Witness ==
  /\ Performed("train", "fit")
  /\ loc.pipeline.num_cols = <<"kitchen_area", "total_area">>
  /\ loc.pipeline.cat_cols = <<"gas">>

\* C16: model_pipeline.pkl changes only by the save step of
\* train_model_clean.py and submission.csv only by the save step of
\* predict_clean.py, each the last step of its run; the step on which a
\* run raises changes neither, and a run that has raised has not saved.
\* So a run that fails leaves the file of an earlier run as it was, and
\* creates none.
C16_Step ==
  /\ (modelFile' # modelFile) => (At("train", "save") /\ pc' = "done")
  /\ (submissionFile' # submissionFile) => (At("predict", "save") /\ pc' = "done")
  /\ (pc' = "raised") => (modelFile' = modelFile /\ submissionFile' = submissionFile)
FeatureColumns == Without(dataFile.content.columns, {"price", "index"})
C17_SameFeatureColumns ==
  /\ Performed("train", "fit") =>
       /\ loc.parts.X_train.columns = FeatureColumns
       /\ loc.pipeline.feature_names_in = FeatureColumns
  /\ modelFile.exists =>
       /\ HasColumns(dataFile.content, <<"price", "index">>)
       /\ modelFile.content.feature_names_in = FeatureColumns
  /\ Performed("check", "predict") =>
       /\ loc.parts.X_train.columns = FeatureColumns
       /\ loc.parts.X_val.columns = FeatureColumns
       /\ loc.parts.X_train.columns = loc.model.feature_names_in
       /\ \A k \in DOMAIN loc.parts.X_train.rows :
            DOMAIN loc.parts.X_train.rows[k] = Range(FeatureColumns)
       /\ \A k \in DOMAIN loc.parts.X_val.rows :
            DOMAIN loc.parts.X_val.rows[k] = Range(FeatureColumns)
  /\ Performed("demo", "predict") =>
       /\ loc.sample.columns = FeatureColumns
       /\ loc.sample.columns = loc.model.feature_names_in
       /\ DOMAIN loc.sample.rows[1] = Range(FeatureColumns)

\* the demo has predicted for a sample it took the index column out of,
\* with a model fit on three feature columns
C17_Witness ==
  /\ Performed("demo", "predict")
  /\ Contains(trace, "drop_index")
  /\ loc.model.feature_names_in = <<"kitchen_area", "gas", "total_area">>

\* the verdict g follows the thresholds of the overall grade
AtLeast(cell, n) == cell # NaN /\ cell.num >= n
Under(cell, n) == cell # NaN /\ cell.num < n
GradeFollowsThresholds(g) ==
  LET top == AtLeast(g.r2_val, 85) /\ Under(g.mae_percent, 15)
      mid == AtLeast(g.r2_val, 80) /\ Under(g.mae_percent, 20)
  IN /\ (g.overall = "EXCELLENT - Distinction Level") <=> top
     /\ (g.overall = "VERY GOOD - Merit Level") <=> (~top /\ mid)
     /\ (g.overall = "GOOD - Pass Level") <=> (~top /\ ~mid)

\* C18 as stated: the overall grade follows the thresholds, and the key
\* takeaway says EXCELLENT exactly when the overall grade is the EXCELLENT
\* one.
C18_TakeawayMatchesGrade ==
  Performed("check", "grade") =>
    /\ GradeFollowsThresholds(loc.grade)
    /\ (loc.grade.takeaway = "EXCELLENT") <=> (loc.grade.overall = "EXCELLENT - Distinction Level")

\* C18 (amended): the overall grade is EXCELLENT - Distinction Level
\* exactly when the validation R2 is at least 0.85 and the MAE is under 15%
\* of the mean price, VERY GOOD - Merit Level exactly when that fails but
\* R2 is at least 0.80 and the MAE under 20%, and GOOD - Pass Level
\* otherwise; the key takeaway says EXCELLENT exactly when R2 is at least
\* 0.85, whatever the MAE: whenever the grade is the EXCELLENT one, and
\* also with a lower grade when the MAE is 15% or more.
C18_GradeThresholds ==
  Performed("check", "grade") =>
    /\ GradeFollowsThresholds(loc.grade)
    /\ (loc.grade.takeaway = "EXCELLENT") <=> AtLeast(loc.grade.r2_val, 85)
    /\ loc.grade.takeaway \in {"EXCELLENT", "GOOD"}
    /\ (loc.grade.overall = "EXCELLENT - Distinction Level") => (loc.grade.takeaway = "EXCELLENT")

\* the R2 is at the upper threshold and the MAE on its threshold: the
\* grade is the middle one and the takeaway says EXCELLENT
C18_Witness ==
  /\ At("check", "done")
  /\ loc.grade.r2_val = Num(85)
  /\ loc.grade.mae_percent = Num(15)
  /\ loc.grade.overall = "VERY GOOD - Merit Level"
  /\ loc.grade.takeaway = "EXCELLENT"

====
